---- MODULE Spec2Model ----
(***************************************************************************)
(* Bollinger Bands engine of client/src/lib/indicators/bollinger.ts.       *)
(*                                                                         *)
(* A JavaScript number is modelled exactly: a finite number is an element  *)
(* a + k*sqrt(t) of a real quadratic field (a, k rational, t a squarefree  *)
(* integer), which is closed under everything the engine computes          *)
(* (sums, division by the period, squares, one square root, a product      *)
(* with the multiplier).  NaN, Infinity and null are separate values.      *)
(* Rounding of 64-bit floats and the sign of zero are not modelled.        *)
(***************************************************************************)
EXTENDS Integers, Sequences, FiniteSets, TLC

VARIABLES data, settings, pc,
          sourceValues, basisValues, stdDevValues, upperValues, lowerValues,
          result,
          first,
          uploadedData, chartData, bollingerSettings, bollingerData,
          currentPrice, priceChange, priceChangePercent,
          showBollingerIndicator, showSettings,
          effects, pageStatus,
          localSettings,
          chartInstance, chartLife, chartKlines, indicatorParams

(* the state of ChartPage (pages/chart.tsx): its useState values, the      *)
(* queue of effects still to run, and whether the page is still mounted    *)
(* the state of the BollingerSettings dialog: localSettings is <<>> while  *)
(* the dialog is not mounted                                               *)
dialogVars == <<localSettings>>

(* the state of the Chart component and of its klinecharts chart:          *)
(* chartInstance is the ref ("null" or "chart"), chartLife says whether    *)
(* the chart was initialised and disposed, chartKlines is the data last    *)
(* applied and indicatorParams the calcParams of its indicator             *)
chartVars == <<chartInstance, chartLife, chartKlines, indicatorParams>>

pageVars == <<uploadedData, chartData, bollingerSettings, bollingerData,
              currentPrice, priceChange, priceChangePercent,
              showBollingerIndicator, showSettings, effects, pageStatus,
              dialogVars, chartVars>>

(* what lies outside one call of the engine: first is the record of the    *)
(* first completed call of a caller that calls repeatedly (<<>> before)    *)
callerState == <<first, pageVars>>

vars == <<data, settings, pc,
          sourceValues, basisValues, stdDevValues, upperValues, lowerValues,
          result, callerState>>

----------------------------------------------------------------------------
(* Bounds of the model *)

MaxBars == 4
MaxLength == 5
MaxNegLength == 2
MaxOffset == 2
MaxRows == 2
MaxTail == 4

----------------------------------------------------------------------------
(* Rational numbers <<n, d>>, d > 0, gcd(n, d) = 1 *)

Abs(x) == IF x < 0 THEN 0 - x ELSE x

RECURSIVE GCD(_, _)
GCD(a, b) == IF b = 0 THEN a ELSE GCD(b, a % b)

Rat(n, d) ==
  LET s == IF d < 0 THEN 0 - 1 ELSE 1
      g == GCD(Abs(n), Abs(d))
  IN  <<(s * n) \div g, (s * d) \div g>>

RZero == <<0, 1>>
RAdd(x, y) == Rat(x[1] * y[2] + y[1] * x[2], x[2] * y[2])
RNeg(x) == <<0 - x[1], x[2]>>
RSub(x, y) == RAdd(x, RNeg(y))
RMul(x, y) == Rat(x[1] * y[1], x[2] * y[2])
RLeq(x, y) == x[1] * y[2] <= y[1] * x[2]

(* largest s with s*s dividing m, for m >= 1 *)
RECURSIVE SquarePart(_, _, _)
SquarePart(m, s, best) ==
  IF s * s > m THEN best
  ELSE SquarePart(m, s + 1, IF m % (s * s) = 0 THEN s ELSE best)

----------------------------------------------------------------------------
(* JavaScript values: number | NaN | Infinity | null *)

(* every value is a record [tag, a, k, t]; a, k, t matter for tag "number" *)
Special(tag) == [tag |-> tag, a |-> <<0, 1>>, k |-> <<0, 1>>, t |-> 1]

NaN == Special("NaN")
Null == Special("null")
Infinity == Special("Infinity")
NegInfinity == Special("-Infinity")

(* the finite number a + k*sqrt(t) *)
Number(a, k, t) ==
  IF k = RZero THEN [tag |-> "number", a |-> a, k |-> RZero, t |-> 1]
  ELSE IF t = 1 THEN [tag |-> "number", a |-> RAdd(a, k), k |-> RZero, t |-> 1]
  ELSE [tag |-> "number", a |-> a, k |-> k, t |-> t]

FromRat(r) == Number(r, RZero, 1)
FromInt(n) == FromRat(<<n, 1>>)

IsFinite(x) == x.tag = "number"

(* isNaN(x) *)
isNaN(x) == x = NaN

(* the radicand shared by two finite numbers *)
Radicand(x, y) == IF x.k = RZero THEN y.t ELSE x.t
Compatible(x, y) == x.k = RZero \/ y.k = RZero \/ x.t = y.t

(* x + y *)
JsAdd(x, y) ==
  IF isNaN(x) \/ isNaN(y) THEN NaN
  ELSE CASE Compatible(x, y) ->
         Number(RAdd(x.a, y.a), RAdd(x.k, y.k), Radicand(x, y))

(* x - y *)
JsSub(x, y) ==
  IF isNaN(x) \/ isNaN(y) THEN NaN
  ELSE CASE Compatible(x, y) ->
         Number(RSub(x.a, y.a), RSub(x.k, y.k), Radicand(x, y))

(* x * y *)
JsMul(x, y) ==
  IF isNaN(x) \/ isNaN(y) THEN NaN
  ELSE CASE Compatible(x, y) ->
         LET t == Radicand(x, y)
         IN  Number(RAdd(RMul(x.a, y.a), RMul(RMul(x.k, y.k), <<t, 1>>)),
                    RAdd(RMul(x.a, y.k), RMul(x.k, y.a)), t)

(* x / p for an integer p: 0/0 is NaN, x/0 is +-Infinity *)
JsDiv(x, p) ==
  IF isNaN(x) THEN NaN
  ELSE IF p = 0
       THEN IF x = FromInt(0) THEN NaN
            ELSE IF RLeq(RZero, x.a) /\ RLeq(RZero, x.k) THEN Infinity
            ELSE NegInfinity
       ELSE Number(RMul(x.a, Rat(1, p)), RMul(x.k, Rat(1, p)), x.t)

(* x / y for a rational y *)
JsQuotient(x, y) ==
  IF isNaN(x) \/ isNaN(y) THEN NaN
  ELSE CASE y.k = RZero ->
         IF y.a[1] = 0 THEN JsDiv(x, 0)
         ELSE JsMul(x, FromRat(Rat(y.a[2], y.a[1])))

(* x > 0 *)
Positive(x) ==
  \/ x = Infinity
  \/ IsFinite(x) /\ RLeq(RZero, x.a) /\ RLeq(RZero, x.k) /\ x # FromRat(RZero)

(* Math.pow(x, 2) *)
MathPow2(x) == JsMul(x, x)

(* Math.sqrt(x) of a rational x = n/d: (sn / (sd * td)) * sqrt(tn * td)   *)
(* where n = sn^2 * tn and d = sd^2 * td                                   *)
MathSqrt(x) ==
  IF isNaN(x) THEN NaN
  ELSE CASE x.k = RZero ->
         IF x.a[1] < 0 THEN NaN
         ELSE IF x.a[1] = 0 THEN FromInt(0)
         ELSE LET n == x.a[1]
                  d == x.a[2]
                  sn == SquarePart(n, 1, 1)
                  sd == SquarePart(d, 1, 1)
                  tn == n \div (sn * sn)
                  td == d \div (sd * sd)
              IN  IF tn * td = 1 THEN FromRat(Rat(sn, sd))
                  ELSE Number(RZero, Rat(sn, sd * td), tn * td)

----------------------------------------------------------------------------
(* Inputs *)

Sources == {"open", "high", "low", "close", "hl2", "hlc3", "ohlc4"}

Bar(ts, o, h, l, c) ==
  [timestamp |-> ts, open |-> FromInt(o), high |-> FromInt(h),
   low |-> FromInt(l), close |-> FromInt(c), volume |-> FromInt(1000)]

BarSet == { Bar("t1", 2, 6, 1, 4), Bar("t2", 3, 5, 2, 2) }

(* five flat bars closing at 1, 2, 3, 4, 5 *)
Timestamps == <<"t1", "t2", "t3", "t4", "t5">>
RampBars == [i \in 1..5 |-> Bar(Timestamps[i], i, i, i, i)]

BarSeqs == UNION { [1..n -> BarSet] : n \in 0..MaxBars } \cup {RampBars}

Lengths == (0 - MaxNegLength)..MaxLength
Offsets == (0 - MaxOffset)..MaxOffset
Multipliers == { FromInt(0), FromRat(<<1, 2>>), FromInt(2) }
SourceInputs == Sources \cup {"vwap"}

(* the style fields of BollingerBandsSettings, as the page first sets them *)
InitialStyle ==
  [basicVisible |-> TRUE, basicColor |-> "#f7c52d", basicWidth |-> 1,
   basicStyle |-> "solid",
   upperVisible |-> TRUE, upperColor |-> "#2962ff", upperWidth |-> 1,
   upperStyle |-> "solid",
   lowerVisible |-> TRUE, lowerColor |-> "#c84bc7", lowerWidth |-> 1,
   lowerStyle |-> "solid",
   fillVisible |-> TRUE, fillOpacity |-> 10]

(* other values of the style fields *)
HiddenStyle ==
  [basicVisible |-> FALSE, basicColor |-> "#000000", basicWidth |-> 1,
   basicStyle |-> "solid",
   upperVisible |-> FALSE, upperColor |-> "#2962ff", upperWidth |-> 1,
   upperStyle |-> "solid",
   lowerVisible |-> TRUE, lowerColor |-> "#ff0000", lowerWidth |-> 1,
   lowerStyle |-> "solid",
   fillVisible |-> FALSE, fillOpacity |-> 10]

DashedStyle ==
  [basicVisible |-> TRUE, basicColor |-> "#f7c52d", basicWidth |-> 3,
   basicStyle |-> "dashed",
   upperVisible |-> TRUE, upperColor |-> "#2962ff", upperWidth |-> 2,
   upperStyle |-> "dashed",
   lowerVisible |-> TRUE, lowerColor |-> "#c84bc7", lowerWidth |-> 4,
   lowerStyle |-> "dashed",
   fillVisible |-> TRUE, fillOpacity |-> 50]

Styles == {InitialStyle, HiddenStyle, DashedStyle}

(* a BollingerBandsSettings value *)
MakeSettings(length, source, stddev, offset, style) ==
  [length |-> length, maType |-> "sma", source |-> source, stddev |-> stddev,
   offset |-> offset,
   basicVisible |-> style.basicVisible, basicColor |-> style.basicColor,
   basicWidth |-> style.basicWidth, basicStyle |-> style.basicStyle,
   upperVisible |-> style.upperVisible, upperColor |-> style.upperColor,
   upperWidth |-> style.upperWidth, upperStyle |-> style.upperStyle,
   lowerVisible |-> style.lowerVisible, lowerColor |-> style.lowerColor,
   lowerWidth |-> style.lowerWidth, lowerStyle |-> style.lowerStyle,
   fillVisible |-> style.fillVisible, fillOpacity |-> style.fillOpacity]

SettingsSet ==
  { MakeSettings(l, src, m, o, InitialStyle) :
      l \in Lengths, src \in SourceInputs, m \in Multipliers, o \in Offsets }

(* the arguments of a caller that calls the engine again and again *)
CallBars ==
  { <<>>,
    <<Bar("t1", 2, 6, 1, 4), Bar("t2", 3, 5, 2, 2)>>,
    <<Bar("t2", 3, 5, 2, 2), Bar("t1", 2, 6, 1, 4)>> }

CallSettings ==
  { MakeSettings(l, "close", FromInt(2), o, st) :
      l \in {1, 2}, o \in {0, 1}, st \in Styles }

----------------------------------------------------------------------------
(* 0-based indexing of arrays *)

At(arr, i) == arr[i + 1]
Indices(arr) == 0..(Len(arr) - 1)

----------------------------------------------------------------------------
(* bollinger.ts *)

(* for (let j = from; j <= i; j++) sum += values[j] *)
RECURSIVE SumLoop(_, _, _, _)
SumLoop(values, j, i, sum) ==
  IF j > i THEN sum
  ELSE SumLoop(values, j + 1, i, JsAdd(sum, At(values, j)))

(* the outer loop of calculateSMA, from index i on: result.push(...) *)
RECURSIVE smaLoop(_, _, _, _)
smaLoop(values, period, i, res) ==
  IF i >= Len(values) THEN res
  ELSE smaLoop(values, period, i + 1,
         Append(res,
           IF i < period - 1 THEN NaN
           ELSE JsDiv(SumLoop(values, i - period + 1, i, FromInt(0)), period)))

(* calculateSMA with the warm-up test "i < period" *)
calculateSMA_lateWarmup(values, period) ==
  LET r == smaLoop(values, period, 0, <<>>)
  IN  [n \in 1..Len(r) |-> IF n - 1 < period THEN NaN ELSE r[n]]

(* calculateSMA with the inner loop "j < i" *)
calculateSMA_exclusive(values, period) ==
  [n \in 1..Len(values) |->
     LET i == n - 1
     IN  IF i < period - 1 THEN NaN
         ELSE JsDiv(SumLoop(values, i - period + 1, i - 1, FromInt(0)), period)]

(* calculateSMA averaging the bars seen so far while the window is short *)
calculateSMA_partialWindow(values, period) ==
  [n \in 1..Len(values) |->
     LET i == n - 1
     IN  IF i < period - 1 THEN JsDiv(SumLoop(values, 0, i, FromInt(0)), i + 1)
         ELSE JsDiv(SumLoop(values, i - period + 1, i, FromInt(0)), period)]

(* calculateSMA(values, period) *)
calculateSMA(values, period) == smaLoop(values, period, 0, <<>>)

(* for (let j = from; j <= i; j++) variance += Math.pow(values[j] - mean, 2) *)
RECURSIVE VarianceLoop(_, _, _, _, _)
VarianceLoop(values, mean, j, i, variance) ==
  IF j > i THEN variance
  ELSE VarianceLoop(values, mean, j + 1, i,
                    JsAdd(variance, MathPow2(JsSub(At(values, j), mean))))

(* the outer loop of calculateStandardDeviation, from index i on *)
RECURSIVE stdDevLoop(_, _, _, _, _)
stdDevLoop(values, period, smaValues, i, res) ==
  IF i >= Len(values) THEN res
  ELSE stdDevLoop(values, period, smaValues, i + 1,
         Append(res,
           IF i < period - 1 \/ isNaN(At(smaValues, i)) THEN NaN
           ELSE LET mean == At(smaValues, i)
                    variance ==
                      VarianceLoop(values, mean, i - period + 1, i, FromInt(0))
                IN  MathSqrt(JsDiv(variance, period))))

(* calculateStandardDeviation with the sample divisor period - 1 *)
calculateStandardDeviation_sample(values, period, smaValues) ==
  [n \in 1..Len(values) |->
     LET i == n - 1
     IN  IF i < period - 1 \/ isNaN(At(smaValues, i)) THEN NaN
         ELSE MathSqrt(JsDiv(VarianceLoop(values, At(smaValues, i),
                                          i - period + 1, i, FromInt(0)),
                             period - 1))]

(* calculateStandardDeviation around the mean of the whole series *)
calculateStandardDeviation_globalMean(values, period, smaValues) ==
  [n \in 1..Len(values) |->
     LET i == n - 1
     IN  IF i < period - 1 \/ isNaN(At(smaValues, i)) THEN NaN
         ELSE LET mean == JsDiv(SumLoop(values, 0, Len(values) - 1, FromInt(0)),
                                Len(values))
              IN  MathSqrt(JsDiv(VarianceLoop(values, mean, i - period + 1, i,
                                              FromInt(0)),
                                 period))]

(* calculateStandardDeviation(values, period, smaValues) *)
calculateStandardDeviation(values, period, smaValues) ==
  stdDevLoop(values, period, smaValues, 0, <<>>)

(* the switch with hlc3 divided by 2 *)
SourceValue_hlc3by2(candle, source) ==
  CASE source = "open" -> candle.open
    [] source = "high" -> candle.high
    [] source = "low" -> candle.low
    [] source = "close" -> candle.close
    [] source = "hl2" -> JsDiv(JsAdd(candle.high, candle.low), 2)
    [] source = "hlc3" -> JsDiv(JsAdd(JsAdd(candle.high, candle.low), candle.close), 2)
    [] source = "ohlc4" ->
         JsDiv(JsAdd(JsAdd(JsAdd(candle.open, candle.high), candle.low), candle.close), 4)
    [] OTHER -> candle.close

(* the switch with "default: return candle.open" *)
SourceValue_defaultOpen(candle, source) ==
  CASE source = "open" -> candle.open
    [] source = "high" -> candle.high
    [] source = "low" -> candle.low
    [] source = "close" -> candle.close
    [] source = "hl2" -> JsDiv(JsAdd(candle.high, candle.low), 2)
    [] source = "hlc3" -> JsDiv(JsAdd(JsAdd(candle.high, candle.low), candle.close), 3)
    [] source = "ohlc4" ->
         JsDiv(JsAdd(JsAdd(JsAdd(candle.open, candle.high), candle.low), candle.close), 4)
    [] OTHER -> candle.open

(* the switch of getSourceValues, for one candle *)
SourceValue(candle, source) ==
  CASE source = "open" -> candle.open
    [] source = "high" -> candle.high
    [] source = "low" -> candle.low
    [] source = "close" -> candle.close
    [] source = "hl2" -> JsDiv(JsAdd(candle.high, candle.low), 2)
    [] source = "hlc3" -> JsDiv(JsAdd(JsAdd(candle.high, candle.low), candle.close), 3)
    [] source = "ohlc4" ->
         JsDiv(JsAdd(JsAdd(JsAdd(candle.open, candle.high), candle.low), candle.close), 4)
    [] OTHER -> candle.close

(* getSourceValues(data, source) *)
getSourceValues(bars, source) ==
  [n \in 1..Len(bars) |-> SourceValue(bars[n], source)]

(* applyOffset with sourceIndex = i + offset *)
applyOffset_reversed(arr, offset) ==
  IF offset = 0 THEN arr
  ELSE [n \in 1..Len(arr) |->
          LET sourceIndex == (n - 1) + offset
          IN  IF sourceIndex >= 0 /\ sourceIndex < Len(arr)
              THEN At(arr, sourceIndex)
              ELSE Null]

(* applyOffset repeating the edge value where sourceIndex is out of range *)
applyOffset_keepEdge(arr, offset) ==
  IF offset = 0 THEN arr
  ELSE [n \in 1..Len(arr) |->
          LET sourceIndex == (n - 1) - offset
          IN  IF sourceIndex >= 0 /\ sourceIndex < Len(arr)
              THEN At(arr, sourceIndex)
              ELSE IF sourceIndex < 0 THEN At(arr, 0)
              ELSE At(arr, Len(arr) - 1)]

(* applyOffset(data, offset) *)
applyOffset(arr, offset) ==
  IF offset = 0 THEN arr
  ELSE [n \in 1..Len(arr) |->
          LET sourceIndex == (n - 1) - offset
          IN  IF sourceIndex >= 0 /\ sourceIndex < Len(arr)
              THEN At(arr, sourceIndex)
              ELSE Null]

(* the upper band below the basis *)
upperBand_below(basis, stdDev, multiplier) ==
  [n \in 1..Len(basis) |->
     IF isNaN(basis[n]) \/ isNaN(stdDev[n]) THEN NaN
     ELSE JsSub(basis[n], JsMul(multiplier, stdDev[n]))]

(* basisValues.map((basis, i) => ... basis + multiplier * stdDevValues[i]) *)
upperBand(basis, stdDev, multiplier) ==
  [n \in 1..Len(basis) |->
     IF isNaN(basis[n]) \/ isNaN(stdDev[n]) THEN NaN
     ELSE JsAdd(basis[n], JsMul(multiplier, stdDev[n]))]

(* the lower band without the multiplier *)
lowerBand_noMultiplier(basis, stdDev, multiplier) ==
  [n \in 1..Len(basis) |->
     IF isNaN(basis[n]) \/ isNaN(stdDev[n]) THEN NaN
     ELSE JsSub(basis[n], stdDev[n])]

(* basisValues.map((basis, i) => ... basis - multiplier * stdDevValues[i]) *)
lowerBand(basis, stdDev, multiplier) ==
  [n \in 1..Len(basis) |->
     IF isNaN(basis[n]) \/ isNaN(stdDev[n]) THEN NaN
     ELSE JsSub(basis[n], JsMul(multiplier, stdDev[n]))]

(* the result without the points that have no basis *)
combine_skipUndefined(bars, finalBasis, finalUpper, finalLower) ==
  LET all == [n \in 1..Len(bars) |->
                [timestamp |-> bars[n].timestamp, basis |-> finalBasis[n],
                 upper |-> finalUpper[n], lower |-> finalLower[n]]]
      HasBasis(p) == IsFinite(p.basis)
  IN  SelectSeq(all, HasBasis)

(* the result with "upper: finalUpper[i] || 0" *)
combine_upperOrZero(bars, finalBasis, finalUpper, finalLower) ==
  [n \in 1..Len(bars) |->
     [timestamp |-> bars[n].timestamp,
      basis |-> finalBasis[n],
      upper |-> IF IsFinite(finalUpper[n]) THEN finalUpper[n] ELSE FromInt(0),
      lower |-> finalLower[n]]]

(* the result with a timestamp only where the shifted basis is not null *)
combine_timestampWhereShifted(bars, finalBasis, finalUpper, finalLower) ==
  [n \in 1..Len(bars) |->
     [timestamp |-> IF finalBasis[n] = Null THEN "" ELSE bars[n].timestamp,
      basis |-> finalBasis[n],
      upper |-> finalUpper[n],
      lower |-> finalLower[n]]]

(* data.map((candle, i) => ({timestamp, basis, upper, lower})) *)
combine(bars, finalBasis, finalUpper, finalLower) ==
  [n \in 1..Len(bars) |->
     [timestamp |-> bars[n].timestamp,
      basis |-> finalBasis[n],
      upper |-> finalUpper[n],
      lower |-> finalLower[n]]]

(* the body of computeBollingerBands after the destructuring of settings:  *)
(* its locals and the series it returns                                    *)
bandSeries(bars, length, source, multiplier, offset) ==
  LET sv == getSourceValues(bars, source)
      bv == calculateSMA(sv, length)
      sd == calculateStandardDeviation(sv, length, bv)
      uv == upperBand(bv, sd, multiplier)
      lv == lowerBand(bv, sd, multiplier)
  IN  [sourceValues |-> sv, basisValues |-> bv, stdDevValues |-> sd,
       upperValues |-> uv, lowerValues |-> lv,
       result |-> combine(bars, applyOffset(bv, offset),
                          applyOffset(uv, offset), applyOffset(lv, offset))]

(* the destructuring with the width of hidden bands set to 0 *)
destructured_hiddenBands(bars, s) ==
  bandSeries(bars, s.length, s.source,
             IF s.upperVisible /\ s.lowerVisible THEN s.stddev ELSE FromInt(0),
             s.offset)

(* const { length, source, stddev: multiplier, offset } = settings *)
destructured(bars, s) == bandSeries(bars, s.length, s.source, s.stddev, s.offset)

(* the series computeBollingerBands(bars, s) returns *)
bollingerBands(bars, s) ==
  IF Len(bars) = 0 THEN <<>> ELSE destructured(bars, s).result

----------------------------------------------------------------------------
(* State machine: one call of computeBollingerBands on the caller's inputs *)

(* useState<BollingerBandsSettings>({...}) *)
InitialSettings == MakeSettings(20, "close", FromInt(2), 0, InitialStyle)

(* the useState values of the first render *)
InitialState ==
  /\ uploadedData = <<>>
  /\ chartData = <<>>
  /\ bollingerSettings = InitialSettings
  /\ bollingerData = <<>>
  /\ currentPrice = FromInt(0)
  /\ priceChange = FromInt(0)
  /\ priceChangePercent = FromInt(0)
  /\ showBollingerIndicator = FALSE
  /\ showSettings = FALSE
  /\ pageStatus = "mounted"
  /\ localSettings = <<>>
  /\ chartInstance = "null"
  /\ chartLife = "none"
  /\ chartKlines = <<>>
  /\ indicatorParams = <<>>

(* the page as first rendered, its two effects still to run *)
PageInitial ==
  /\ InitialState
  /\ effects = <<"upload", "bands">>

Init ==
  /\ data \in BarSeqs
  /\ settings \in SettingsSet
  /\ pc = "call"
  /\ sourceValues = <<>>
  /\ basisValues = <<>>
  /\ stdDevValues = <<>>
  /\ upperValues = <<>>
  /\ lowerValues = <<>>
  /\ result = <<>>
  /\ first = <<>>
  /\ PageInitial

(* the call on empty data reading data[0] before the length test *)
computeEmpty_raise ==
  /\ pc = "call"
  /\ Len(data) = 0
  /\ pc' = "error"
  /\ UNCHANGED <<data, settings, sourceValues, basisValues, stdDevValues,
                 upperValues, lowerValues, result, callerState>>

(* computeBollingerBands(data, settings) on empty data: return [] *)
computeEmpty ==
  /\ pc = "call"
  /\ Len(data) = 0
  /\ result' = <<>>
  /\ pc' = "done"
  /\ UNCHANGED <<data, settings, sourceValues, basisValues, stdDevValues,
                 upperValues, lowerValues, callerState>>

(* the call with "if (length < 1) throw new RangeError(...)" *)
computeBollingerBands_rejectLength ==
  /\ pc = "call"
  /\ Len(data) # 0
  /\ IF settings.length < 1
     THEN /\ pc' = "error"
          /\ UNCHANGED <<sourceValues, basisValues, stdDevValues, upperValues,
                         lowerValues, result>>
     ELSE LET run == destructured(data, settings)
          IN  /\ sourceValues' = run.sourceValues
              /\ basisValues' = run.basisValues
              /\ stdDevValues' = run.stdDevValues
              /\ upperValues' = run.upperValues
              /\ lowerValues' = run.lowerValues
              /\ result' = run.result
              /\ pc' = "done"
  /\ UNCHANGED <<data, settings, callerState>>

(* the call returning the series of the call before when it has as many   *)
(* points as there are bars                                                *)
computeBollingerBands_reuseSeries ==
  /\ pc = "call"
  /\ Len(data) # 0
  /\ IF Len(result) = Len(data)
     THEN UNCHANGED <<sourceValues, basisValues, stdDevValues, upperValues,
                      lowerValues, result>>
     ELSE LET run == destructured(data, settings)
          IN  /\ sourceValues' = run.sourceValues
              /\ basisValues' = run.basisValues
              /\ stdDevValues' = run.stdDevValues
              /\ upperValues' = run.upperValues
              /\ lowerValues' = run.lowerValues
              /\ result' = run.result
  /\ pc' = "done"
  /\ UNCHANGED <<data, settings, callerState>>

(* computeBollingerBands(data, settings) on non-empty data *)
computeBollingerBands ==
  /\ pc = "call"
  /\ Len(data) # 0
  /\ LET run == destructured(data, settings)
     IN  /\ sourceValues' = run.sourceValues
         /\ basisValues' = run.basisValues
         /\ stdDevValues' = run.stdDevValues
         /\ upperValues' = run.upperValues
         /\ lowerValues' = run.lowerValues
         /\ result' = run.result
  /\ pc' = "done"
  /\ UNCHANGED <<data, settings, callerState>>

Next == computeEmpty \/ computeBollingerBands

Spec == Init /\ [][Next]_vars

(* the calls with every bar sequence, length and offset, on the close at   *)
(* multiplier 2                                                            *)
InitTotal ==
  /\ Init
  /\ settings.source = "close"
  /\ settings.stddev = FromInt(2)

(* a step that leaves the call: the return, or a throw *)
Leave == pc = "call" /\ pc' \in {"done", "error"}

(* the call is synchronous: once entered it runs until it returns or       *)
(* throws.  Both actions of Next are enabled in every state with           *)
(* pc = "call" (their only guards are pc and the emptiness of data), so    *)
(* this is weak fairness of Next.                                          *)
TotalSpec == InitTotal /\ [][Next]_vars /\ WF_pc(Leave)

(* A caller that calls the engine repeatedly: after a return it passes new *)
(* arguments; the first completed call is kept on record.                  *)
InitCalls ==
  /\ data \in CallBars
  /\ settings \in CallSettings
  /\ pc = "call"
  /\ sourceValues = <<>>
  /\ basisValues = <<>>
  /\ stdDevValues = <<>>
  /\ upperValues = <<>>
  /\ lowerValues = <<>>
  /\ result = <<>>
  /\ first = <<>>
  /\ PageInitial

nextCall ==
  /\ pc = "done"
  /\ first' = IF first = <<>>
              THEN <<[data |-> data, settings |-> settings, result |-> result]>>
              ELSE first
  /\ data' \in CallBars
  /\ settings' \in CallSettings
  /\ pc' = "call"
  /\ UNCHANGED <<sourceValues, basisValues, stdDevValues, upperValues,
                 lowerValues, result, pageVars>>

NextCalls == computeEmpty \/ computeBollingerBands \/ nextCall

CallsSpec == InitCalls /\ [][NextCalls]_vars

TypeOK ==
  /\ pc \in {"call", "done"}
  /\ Len(result) \in {0, Len(data)}

----------------------------------------------------------------------------
(* components/Chart.tsx *)

(* new Date(item.timestamp).getTime(): the epoch time of a timestamp *)
getTime(timestamp) ==
  CASE timestamp = "t1" -> 1000
    [] timestamp = "t2" -> 2000
    [] timestamp = "t3" -> 3000
    [] timestamp = "t4" -> 4000
    [] timestamp = "t5" -> 5000

(* data.map(item => ({timestamp: ..., open, high, low, close, volume})) *)
klineData(bars) ==
  [n \in 1..Len(bars) |->
     [timestamp |-> getTime(bars[n].timestamp),
      open |-> bars[n].open, high |-> bars[n].high, low |-> bars[n].low,
      close |-> bars[n].close, volume |-> bars[n].volume]]

(* calcParams: [settings.length, settings.stddev] *)
calcParams(s) == <<s.length, s.stddev>>

(* for (let j = from; j <= i; j++) sum += dataList[j].close *)
RECURSIVE calcSum(_, _, _, _)
calcSum(dataList, j, i, sum) ==
  IF j > i THEN sum
  ELSE calcSum(dataList, j + 1, i, JsAdd(sum, At(dataList, j).close))

(* for (...) variance += Math.pow(dataList[j].close - basis, 2) *)
RECURSIVE calcVariance(_, _, _, _, _)
calcVariance(dataList, basis, j, i, variance) ==
  IF j > i THEN variance
  ELSE calcVariance(dataList, basis, j + 1, i,
         JsAdd(variance, MathPow2(JsSub(At(dataList, j).close, basis))))

(* the loop of the registered indicator's calc, from index i on *)
RECURSIVE calcLoop(_, _, _, _, _)
calcLoop(dataList, length, multiplier, i, res) ==
  IF i >= Len(dataList) THEN res
  ELSE calcLoop(dataList, length, multiplier, i + 1,
         Append(res,
           IF i < length - 1 THEN [up |-> Null, mid |-> Null, dn |-> Null]
           ELSE LET sum == calcSum(dataList, i - length + 1, i, FromInt(0))
                    basis == JsDiv(sum, length)
                    variance ==
                      calcVariance(dataList, basis, i - length + 1, i, FromInt(0))
                    stdDev == MathSqrt(JsDiv(variance, length))
                    upper == JsAdd(basis, JsMul(multiplier, stdDev))
                    lower == JsSub(basis, JsMul(multiplier, stdDev))
                IN  [up |-> upper, mid |-> basis, dn |-> lower]))

(* calc: (dataList, { params }) => {...} of the BollingerBands indicator *)
calc(dataList, params) ==
  LET length == params[1]
      multiplier == params[2]
  IN  calcLoop(dataList, length, multiplier, 0, <<>>)

(* what the widget draws for the props data and settings: applyNewData of  *)
(* the converted bars, the indicator computed with calcParams              *)
drawnSeries(bars, s) == calc(klineData(bars), calcParams(s))

engineVars == <<data, settings, pc, sourceValues, basisValues, stdDevValues,
                upperValues, lowerValues, result, first>>

pageState == <<uploadedData, chartData, bollingerSettings, bollingerData,
               currentPrice, priceChange, priceChangePercent,
               showBollingerIndicator, showSettings, pageStatus>>

(* useEffect(() => {...}, []): registerIndicator, init, createIndicator *)
chartMountEffect ==
  /\ pageStatus = "mounted"
  /\ effects # <<>>
  /\ Head(effects) = "chartMount"
  /\ chartInstance' = "chart"
  /\ chartLife' = "live"
  /\ chartKlines' = <<>>
  /\ indicatorParams' = calcParams(bollingerSettings)
  /\ effects' = Tail(effects)
  /\ UNCHANGED <<pageState, engineVars, dialogVars>>

(* useEffect(() => {...}, [data]): applyNewData(klineData) *)
chartDataEffect ==
  /\ pageStatus = "mounted"
  /\ effects # <<>>
  /\ Head(effects) = "chartData"
  /\ IF chartInstance # "null" /\ Len(chartData) > 0
     THEN chartKlines' = klineData(chartData)
     ELSE UNCHANGED chartKlines
  /\ effects' = Tail(effects)
  /\ UNCHANGED <<chartInstance, chartLife, indicatorParams, pageState,
                 engineVars, dialogVars>>

(* useEffect(() => {...}, [settings]): overrideIndicator({calcParams}) *)
chartSettingsEffect ==
  /\ pageStatus = "mounted"
  /\ effects # <<>>
  /\ Head(effects) = "chartSettings"
  /\ IF chartInstance # "null"
     THEN indicatorParams' = calcParams(bollingerSettings)
     ELSE UNCHANGED indicatorParams
  /\ effects' = Tail(effects)
  /\ UNCHANGED <<chartInstance, chartLife, chartKlines, pageState,
                 engineVars, dialogVars>>

(* the cleanup of the mount effect: dispose(chartRef.current!) and         *)
(* chartInstance.current = null.  React may have detached chartRef by the  *)
(* time the cleanup runs; dispose of no element leaves the chart alive     *)
(* and unreachable ("leaked")                                              *)
chartCleanup ==
  /\ effects # <<>>
  /\ Head(effects) = "chartCleanup"
  /\ IF chartInstance # "null"
     THEN /\ \E chartRef \in {"div", "null"} :
               chartLife' = IF chartRef = "div" THEN "disposed" ELSE "leaked"
          /\ chartInstance' = "null"
          /\ chartKlines' = <<>>
          /\ indicatorParams' = <<>>
     ELSE UNCHANGED <<chartInstance, chartLife, chartKlines, indicatorParams>>
  /\ effects' = Tail(effects)
  /\ UNCHANGED <<pageState, engineVars, dialogVars>>

----------------------------------------------------------------------------
(* BollingerSettings dialog (src/unnamed/part_000) *)

(* the text of a number input, as a sequence of characters *)
DigitValue(c) ==
  CASE c = "0" -> 0 [] c = "1" -> 1 [] c = "2" -> 2 [] c = "3" -> 3
    [] c = "4" -> 4 [] c = "5" -> 5 [] c = "6" -> 6 [] c = "7" -> 7
    [] c = "8" -> 8 [] c = "9" -> 9

IsDigit(c) == c \in {"0", "1", "2", "3", "4", "5", "6", "7", "8", "9"}

(* the value of the leading digits of text from position i on *)
RECURSIVE DigitsValue(_, _, _)
DigitsValue(text, i, acc) ==
  IF i > Len(text) \/ ~IsDigit(text[i]) THEN acc
  ELSE DigitsValue(text, i + 1, 10 * acc + DigitValue(text[i]))

(* the number of leading digits of text from position i on *)
RECURSIVE DigitsCount(_, _)
DigitsCount(text, i) ==
  IF i > Len(text) \/ ~IsDigit(text[i]) THEN 0
  ELSE 1 + DigitsCount(text, i + 1)

RECURSIVE PowerOfTen(_)
PowerOfTen(n) == IF n = 0 THEN 1 ELSE 10 * PowerOfTen(n - 1)

(* parseInt(text) of a text with at least one digit after an optional sign *)
parseInt(text) ==
  IF Head(text) = "-" THEN 0 - DigitsValue(text, 2, 0)
  ELSE DigitsValue(text, 1, 0)

(* parseFloat(text) of a text: sign, digits, optional "." and digits *)
parseFloat(text) ==
  LET negative == Head(text) = "-"
      from == IF negative THEN 2 ELSE 1
      whole == DigitsValue(text, from, 0)
      dot == from + DigitsCount(text, from)
      hasFraction == dot <= Len(text) /\ text[dot] = "."
      places == IF hasFraction THEN DigitsCount(text, dot + 1) ELSE 0
      fraction == IF hasFraction THEN DigitsValue(text, dot + 1, 0) ELSE 0
      magnitude == RAdd(<<whole, 1>>, Rat(fraction, PowerOfTen(places)))
  IN  FromRat(IF negative THEN RNeg(magnitude) ELSE magnitude)

(* what the user can do to the length: a slider position (min 5, max 50)   *)
(* or a text typed into the number input (min and max do not restrict      *)
(* what is typed)                                                          *)
LengthSlider == {5}
LengthTexts == {<<"1">>, <<"0">>, <<"-", "3">>}
LengthValues == LengthSlider \cup { parseInt(text) : text \in LengthTexts }

(* the multiplier: a slider position (min 0.5, max 5) or a typed text *)
StddevSlider == {FromRat(<<1, 2>>)}
StddevTexts == {<<"0">>}
StddevValues == StddevSlider \cup { parseFloat(text) : text \in StddevTexts }

(* the offset: a slider position (min -20, max 20) or a typed text *)
OffsetSlider == {0 - 1}
OffsetTexts == {<<"0">>}
OffsetValues == OffsetSlider \cup { parseInt(text) : text \in OffsetTexts }

(* the items of the source select that the model uses *)
SourceItems == {"close", "hl2"}

(* const defaults: BollingerBandsSettings = {...} of resetToDefaults *)
defaults ==
  [length |-> 20, maType |-> "sma", source |-> "close",
   stddev |-> FromInt(2), offset |-> 0,
   basicVisible |-> TRUE, basicColor |-> "#f7c52d", basicWidth |-> 1,
   basicStyle |-> "solid",
   upperVisible |-> TRUE, upperColor |-> "#2962ff", upperWidth |-> 1,
   upperStyle |-> "solid",
   lowerVisible |-> TRUE, lowerColor |-> "#c84bc7", lowerWidth |-> 1,
   lowerStyle |-> "solid",
   fillVisible |-> TRUE, fillOpacity |-> 10]

----------------------------------------------------------------------------
(* pages/chart.tsx: ChartPage *)

(* the data rows of an uploaded CSV after parseFloat: the cells of a row   *)
(* are numbers, or NaN where the text is not a number                      *)
NaNRow == [Bar("t3", 3, 5, 2, 2) EXCEPT !.open = NaN]
ZeroRow == [Bar("t4", 3, 5, 2, 2) EXCEPT !.close = FromInt(0)]
RowSet == BarSet \cup {NaNRow, ZeroRow}
Files == UNION { [1..n -> RowSet] : n \in 1..MaxRows }

(* i <= 1001: at most 1000 rows after the header *)
RowLimit == 1001

(* the test of handleFileUpload on the parsed cells of one row *)
validRow(row) ==
  /\ ~isNaN(row.open) /\ ~isNaN(row.high) /\ ~isNaN(row.low) /\ ~isNaN(row.close)
  /\ Positive(row.open) /\ Positive(row.high)
  /\ Positive(row.low) /\ Positive(row.close)

(* parsedData.push({timestamp, open, high, low, close, volume: ...}) *)
parsedRow(row) ==
  [row EXCEPT !.volume = IF isNaN(row.volume) THEN FromInt(1000000)
                         ELSE row.volume]

(* for (let i = ...; i < lines.length && i <= 1001; i++), from index i on: *)
(* rows[i] is line i, line 0 is the header; the rows i..last are read and  *)
(* the valid ones pushed in order                                          *)
parseLoop(rows, i, parsedData) ==
  LET last == IF Len(rows) + 1 <= RowLimit THEN Len(rows) ELSE RowLimit
      valid == SelectSeq(SubSeq(rows, i, last), validRow)
  IN  parsedData \o [n \in 1..Len(valid) |-> parsedRow(valid[n])]

(* the dependency arrays of the two effects *)
uploadDeps == {"uploadedData", "toast"}
bandsDeps == {"chartData", "bollingerSettings"}

(* the effects React runs after a render in which these states changed,    *)
(* in the order of their declaration                                       *)
Schedule(changed) ==
  (IF uploadDeps \cap changed # {} THEN <<"upload">> ELSE <<>>)
    \o (IF bandsDeps \cap changed # {} THEN <<"bands">> ELSE <<>>)

(* the effects of Chart in the order of their declaration *)
chartMountEffects_dataFirst == <<"chartData", "chartMount", "chartSettings">>
chartMountEffects == <<"chartMount", "chartData", "chartSettings">>

(* the effects of Chart that React runs after a render: all of them when   *)
(* Chart is mounted by it, its cleanup when Chart is unmounted by it,      *)
(* otherwise those whose dependency (data, settings) changed               *)
ChartEffects(changed, wasShown, isShown) ==
  IF isShown /\ ~wasShown THEN chartMountEffects
  ELSE IF wasShown /\ ~isShown THEN <<"chartCleanup">>
  ELSE IF isShown
       THEN (IF "chartData" \in changed THEN <<"chartData">> ELSE <<>>)
              \o (IF "bollingerSettings" \in changed
                  THEN <<"chartSettings">> ELSE <<>>)
       ELSE <<>>

(* the effects after a render: those of the child Chart, then the page's *)
EffectsAfter(changed, wasShown, isShown) ==
  ChartEffects(changed, wasShown, isShown) \o Schedule(changed)

(* an uncaught error unmounts the whole page, and Chart with it *)
EffectsOfCrash == ChartEffects({}, showBollingerIndicator, FALSE)

(* const currentBands = ...; the Current Values panel calls                *)
(* currentBands.upper.toFixed(2), .basis.toFixed(2), .lower.toFixed(2):    *)
(* a TypeError when one of them is null                                    *)
renderThrows(bands) ==
  /\ Len(bands) > 0
  /\ LET currentBands == bands[Len(bands)]
     IN  currentBands.upper = Null \/ currentBands.basis = Null
           \/ currentBands.lower = Null

(* no call of the engine in progress *)
EngineIdle ==
  /\ data = <<>>
  /\ settings = InitialSettings
  /\ pc = "done"
  /\ sourceValues = <<>>
  /\ basisValues = <<>>
  /\ stdDevValues = <<>>
  /\ upperValues = <<>>
  /\ lowerValues = <<>>
  /\ result = <<>>
  /\ first = <<>>

Idle == pageStatus = "mounted" /\ effects = <<>>

(* reader.onload of handleFileUpload on a CSV file with an OHLC header and *)
(* these data rows (uploadedData is <<>> for null, <<bars>> otherwise)     *)
handleFileUpload(rows) ==
  /\ Idle
  /\ LET parsedData == parseLoop(rows, 1, <<>>)
         validRows == Len(parsedData)
     IN  IF validRows > 0
         THEN /\ uploadedData' = <<parsedData>>
              /\ effects' = Schedule({"uploadedData"})
         ELSE UNCHANGED <<uploadedData, effects>>
  /\ UNCHANGED <<chartData, bollingerSettings, bollingerData, currentPrice,
                 priceChange, priceChangePercent, showBollingerIndicator,
                 showSettings, pageStatus, engineVars, dialogVars, chartVars>>

(* useEffect(() => {...}, [uploadedData, toast]) *)
uploadEffect ==
  /\ pageStatus = "mounted"
  /\ effects # <<>>
  /\ Head(effects) = "upload"
  /\ IF uploadedData # <<>>
     THEN LET uploaded == uploadedData[1]
          IN  IF Len(uploaded) > 0
              THEN IF Len(uploaded) < 2
                   THEN (* previous is undefined: previous.close throws *)
                        /\ pageStatus' = "crashed"
                        /\ effects' = EffectsOfCrash
                        /\ UNCHANGED <<chartData, currentPrice, priceChange,
                                       priceChangePercent, showBollingerIndicator>>
                   ELSE LET latest == uploaded[Len(uploaded)]
                            previous == uploaded[Len(uploaded) - 1]
                            change == JsSub(latest.close, previous.close)
                        IN  /\ chartData' = uploaded
                            /\ currentPrice' = latest.close
                            /\ priceChange' = change
                            /\ priceChangePercent' =
                                 JsMul(JsQuotient(change, previous.close), FromInt(100))
                            /\ showBollingerIndicator' = TRUE
                            /\ effects' = Tail(effects)
                                 \o EffectsAfter({"chartData"},
                                                 showBollingerIndicator, TRUE)
                            /\ UNCHANGED pageStatus
              ELSE /\ chartData' = uploaded
                   /\ effects' = Tail(effects)
               \o EffectsAfter({"chartData"}, showBollingerIndicator,
                               showBollingerIndicator)
                   /\ UNCHANGED <<currentPrice, priceChange, priceChangePercent,
                                  showBollingerIndicator, pageStatus>>
     ELSE /\ chartData' = <<>>
          /\ currentPrice' = FromInt(0)
          /\ priceChange' = FromInt(0)
          /\ priceChangePercent' = FromInt(0)
          /\ effects' = Tail(effects)
               \o EffectsAfter({"chartData"}, showBollingerIndicator,
                               showBollingerIndicator)
          /\ UNCHANGED <<showBollingerIndicator, pageStatus>>
  /\ UNCHANGED <<uploadedData, bollingerSettings, bollingerData, showSettings,
                 engineVars, dialogVars, chartVars>>

(* useEffect(() => {...}, [chartData, bollingerSettings]), and the render  *)
(* that follows setBollingerData                                           *)
bandsEffect ==
  /\ pageStatus = "mounted"
  /\ effects # <<>>
  /\ Head(effects) = "bands"
  /\ IF Len(chartData) > 0
     THEN LET bands == bollingerBands(chartData, bollingerSettings)
          IN  IF renderThrows(bands)
              THEN /\ pageStatus' = "crashed"
                   /\ effects' = EffectsOfCrash
                   /\ UNCHANGED bollingerData
              ELSE /\ bollingerData' = bands
                   /\ effects' = Tail(effects)
                   /\ UNCHANGED pageStatus
     ELSE /\ effects' = Tail(effects)
          /\ UNCHANGED <<bollingerData, pageStatus>>
  /\ UNCHANGED <<uploadedData, chartData, bollingerSettings, currentPrice,
                 priceChange, priceChangePercent, showBollingerIndicator,
                 showSettings, engineVars, dialogVars, chartVars>>

(* onSettingsChange={setBollingerSettings}: the page's part of a call of   *)
(* onSettingsChange by the open dialog                                     *)
setBollingerSettings(s) ==
  /\ Idle
  /\ showSettings
  /\ bollingerSettings' = s
  /\ effects' = EffectsAfter({"bollingerSettings"}, showBollingerIndicator,
                              showBollingerIndicator)
  /\ UNCHANGED <<uploadedData, chartData, bollingerData, currentPrice,
                 priceChange, priceChangePercent, showBollingerIndicator,
                 showSettings, pageStatus, engineVars, chartVars>>

(* updateSetting building the new settings from the defaults *)
updateSetting_fromDefaults(key, value) ==
  /\ localSettings # <<>>
  /\ LET newSettings == [defaults EXCEPT ![key] = value]
     IN  /\ localSettings' = <<newSettings>>
         /\ setBollingerSettings(newSettings)

(* updateSetting(key, value) of the open dialog: setLocalSettings and      *)
(* onSettingsChange with {...localSettings, [key]: value}                  *)
updateSetting(key, value) ==
  /\ localSettings # <<>>
  /\ LET newSettings == [localSettings[1] EXCEPT ![key] = value]
     IN  /\ localSettings' = <<newSettings>>
         /\ setBollingerSettings(newSettings)

(* resetToDefaults of the open dialog *)
resetToDefaults ==
  /\ localSettings # <<>>
  /\ localSettings' = <<defaults>>
  /\ setBollingerSettings(defaults)

(* the "Add Bollinger Bands" buttons *)
addIndicator ==
  /\ Idle
  /\ ~showBollingerIndicator
  /\ showBollingerIndicator' = TRUE
  /\ effects' = EffectsAfter({}, FALSE, TRUE)
  /\ UNCHANGED <<uploadedData, chartData, bollingerSettings, bollingerData,
                 currentPrice, priceChange, priceChangePercent, showSettings,
                 pageStatus, engineVars, dialogVars, chartVars>>

(* the remove button of the indicator *)
removeIndicator ==
  /\ Idle
  /\ showBollingerIndicator
  /\ showBollingerIndicator' = FALSE
  /\ effects' = EffectsAfter({}, TRUE, FALSE)
  /\ UNCHANGED <<uploadedData, chartData, bollingerSettings, bollingerData,
                 currentPrice, priceChange, priceChangePercent, showSettings,
                 pageStatus, engineVars, dialogVars, chartVars>>

(* the "Configure" button: setShowSettings(true) *)
openSettings ==
  /\ Idle
  /\ showBollingerIndicator
  /\ ~showSettings
  /\ showSettings' = TRUE
  /\ localSettings' = <<bollingerSettings>>
  /\ UNCHANGED <<uploadedData, chartData, bollingerSettings, bollingerData,
                 currentPrice, priceChange, priceChangePercent,
                 showBollingerIndicator, effects, pageStatus, engineVars, chartVars>>

(* onClose={() => setShowSettings(false)} *)
closeSettings ==
  /\ Idle
  /\ showSettings
  /\ showSettings' = FALSE
  /\ localSettings' = <<>>
  /\ UNCHANGED <<uploadedData, chartData, bollingerSettings, bollingerData,
                 currentPrice, priceChange, priceChangePercent,
                 showBollingerIndicator, effects, pageStatus, engineVars, chartVars>>

(* a cell whose text is "Infinity": parseFloat gives Infinity *)
InfinityRow == [Bar("t5", 3, 5, 2, 2) EXCEPT !.close = Infinity]

(* files of about RowLimit data rows: rows of the first bar, then a tail *)
TailRows == BarSet \cup {InfinityRow}
LongFile(n, tail) ==
  [i \in 1..n |->
     IF i <= n - Len(tail) THEN Bar("t1", 2, 6, 1, 4)
     ELSE tail[i - (n - Len(tail))]]
LongLengths == (RowLimit - 1)..(RowLimit + 1)
Tails == [1..MaxTail -> TailRows]

UploadFiles == UNION { [1..n -> RowSet \cup {InfinityRow}] : n \in 1..MaxRows }

(* one upload into the page whose first effects have run *)
UploadInit ==
  /\ EngineIdle
  /\ InitialState
  /\ effects = <<>>

UploadNext ==
  \/ \E rows \in UploadFiles : handleFileUpload(rows)
  \/ \E n \in LongLengths, tail \in Tails : handleFileUpload(LongFile(n, tail))

UploadSpec == UploadInit /\ [][UploadNext]_vars

PageInit == EngineIdle /\ PageInitial

PageNext ==
  \/ \E rows \in Files : handleFileUpload(rows)
  \/ uploadEffect
  \/ bandsEffect
  \/ chartMountEffect
  \/ chartDataEffect
  \/ chartSettingsEffect
  \/ chartCleanup
  \/ \E value \in LengthValues : updateSetting("length", value)
  \/ \E value \in StddevValues : updateSetting("stddev", value)
  \/ \E value \in OffsetValues : updateSetting("offset", value)
  \/ \E value \in SourceItems : updateSetting("source", value)
  \/ resetToDefaults
  \/ addIndicator
  \/ removeIndicator
  \/ openSettings
  \/ closeSettings

PageSpec == PageInit /\ [][PageNext]_vars

----------------------------------------------------------------------------
(* Vocabulary of the properties *)

Returned == pc = "done" /\ Len(data) > 0

(* a band value that is "undefined at this index": not a finite number *)
Undefined(v) == ~IsFinite(v)

(* the engine's value as the widget is to show it: null where undefined *)
OrNull(v) == IF Undefined(v) THEN Null ELSE v

(* x >= 0 for a number a + k*sqrt(t) whose parts do not differ in sign *)
NonNegative(x) == IsFinite(x) /\ RLeq(RZero, x.a) /\ RLeq(RZero, x.k)

(* x <= y *)
Leq(x, y) == NonNegative(JsSub(y, x))

AllDefined(p) == IsFinite(p.basis) /\ IsFinite(p.upper) /\ IsFinite(p.lower)
AllUndefined(p) == Undefined(p.basis) /\ Undefined(p.upper) /\ Undefined(p.lower)

(* the window values[i-window+1 .. i], i counted from 0 *)
Window(values, i, window) == SubSeq(values, i - window + 2, i + 1)

(* sum of a sequence of rational values *)
RECURSIVE RatSum(_)
RatSum(s) == IF s = <<>> THEN RZero ELSE RAdd(Head(s).a, RatSum(Tail(s)))

(* sum of the squared distances of a sequence of rational values to m *)
RECURSIVE RatSquares(_, _)
RatSquares(s, m) ==
  IF s = <<>> THEN RZero
  ELSE RAdd(RMul(RSub(Head(s).a, m), RSub(Head(s).a, m)), RatSquares(Tail(s), m))

(* n/d for an integer d # 0 *)
RatOver(r, d) == RMul(r, Rat(1, d))

----------------------------------------------------------------------------
(* C1: for non-empty bars the result has exactly one point per bar, and   *)
(* point i belongs to bar i (it carries that bar's timestamp).            *)
C1_OnePointPerBar ==
  Returned =>
    /\ Len(result) = Len(data)
    /\ \A n \in 1..Len(data) : result[n].timestamp = data[n].timestamp

C1_Witness ==
  /\ Returned
  /\ Len(data) = 3
  /\ settings.length = 2
  /\ settings.offset = 1
  /\ Len(result) = 3
  /\ Undefined(result[1].basis)

(* C2: with offset 0 and length L >= 1, basis, upper and lower are        *)
(* undefined at every index below L-1 and defined from L-1 on.            *)
C2_WarmUp ==
  (Returned /\ settings.offset = 0 /\ settings.length >= 1) =>
    \A n \in 1..Len(result) :
      IF n - 1 < settings.length - 1
      THEN AllUndefined(result[n])
      ELSE AllDefined(result[n])

C2_Witness ==
  /\ Returned
  /\ settings.offset = 0
  /\ settings.length = 3
  /\ Len(result) = 4
  /\ AllUndefined(result[2])
  /\ AllDefined(result[3])

(* C3: every basis, upper and lower of the result is null or a real       *)
(* number; NaN never reaches the caller.                                  *)
C3_NeverNaN ==
  Returned =>
    \A n \in 1..Len(result) :
      /\ ~isNaN(result[n].basis)
      /\ ~isNaN(result[n].upper)
      /\ ~isNaN(result[n].lower)

(* C4: for length 0 and for every negative length, every output point     *)
(* has undefined basis, upper and lower.                                  *)
C4_NonPositiveLengthUndefined ==
  (Returned /\ settings.length <= 0) =>
    \A n \in 1..Len(result) : AllUndefined(result[n])

(* C5: offset shift law: with offset k, the value at index i is the       *)
(* unshifted value at i-k when 0 <= i-k < N and is undefined otherwise,   *)
(* for basis, upper and lower; offset 0 changes nothing.                  *)
C5_OffsetShiftLaw ==
  Returned =>
    /\ Len(result) = Len(data)
    /\ \A n \in 1..Len(result) :
         LET m == n - settings.offset
         IN  IF m >= 1 /\ m <= Len(data)
             THEN /\ result[n].basis = basisValues[m]
                  /\ result[n].upper = upperValues[m]
                  /\ result[n].lower = lowerValues[m]
             ELSE AllUndefined(result[n])

C5_Witness ==
  /\ Returned
  /\ settings.offset = 1
  /\ settings.length = 1
  /\ settings.source = "close"
  /\ Len(data) = 3
  /\ data[1] # data[2]
  /\ data[2] # data[3]
  /\ IsFinite(result[3].basis)
  /\ result[3].basis = basisValues[2]
  /\ result[3].basis # basisValues[3]
  /\ result[1].basis = Null

(* C6: rolling mean: for window >= 1 and i >= window-1 the moving average *)
(* at i is the arithmetic mean of values[i-window+1 .. i], and the result *)
(* is as long as the values.                                              *)
C6_RollingMean ==
  (Returned /\ settings.length >= 1) =>
    /\ Len(basisValues) = Len(sourceValues)
    /\ \A n \in 1..Len(basisValues) :
         (n - 1 >= settings.length - 1) =>
           /\ IsFinite(basisValues[n])
           /\ basisValues[n].k = RZero
           /\ Len(Window(sourceValues, n - 1, settings.length)) = settings.length
           /\ RMul(basisValues[n].a, <<settings.length, 1>>)
                = RatSum(Window(sourceValues, n - 1, settings.length))

C6_Witness ==
  /\ Returned
  /\ settings.length = 3
  /\ settings.source = "hlc3"
  /\ Len(data) = 4
  /\ data[2] # data[4]
  /\ IsFinite(basisValues[4])
  /\ basisValues[4] # basisValues[3]

(* C7: population standard deviation: at every defined index i the        *)
(* squared dispersion is (1/window) times the sum over the window ending  *)
(* at i of the squared distances to the mean of that same window; for the *)
(* values 1, 2, 3, 4, 5 and window 5 it is 2.                             *)
C7_PopulationVariance ==
  Returned =>
    /\ \A n \in 1..Len(stdDevValues) :
         IsFinite(stdDevValues[n]) =>
           LET w == Window(sourceValues, n - 1, settings.length)
               mean == RatOver(RatSum(w), settings.length)
               squared == JsMul(stdDevValues[n], stdDevValues[n])
           IN  /\ squared.k = RZero
               /\ squared.a = RatOver(RatSquares(w, mean), settings.length)
    /\ (data = RampBars /\ settings.length = 5) =>
         JsMul(stdDevValues[5], stdDevValues[5]) = FromInt(2)

C7_Witness ==
  /\ Returned
  /\ data = RampBars
  /\ settings.length = 5
  /\ settings.source = "close"
  /\ stdDevValues[5] = Number(RZero, <<1, 1>>, 2)

(* C8: band symmetry: wherever the bands are defined, upper - basis and   *)
(* basis - lower are equal, and both are the multiplier times the         *)
(* dispersion of the index the values were computed for; before and after *)
(* the offset.                                                            *)
C8_BandSymmetry ==
  Returned =>
    /\ \A n \in 1..Len(basisValues) :
         (IsFinite(basisValues[n]) /\ IsFinite(upperValues[n]) /\ IsFinite(lowerValues[n])) =>
           /\ JsSub(upperValues[n], basisValues[n]) = JsSub(basisValues[n], lowerValues[n])
           /\ JsSub(upperValues[n], basisValues[n]) = JsMul(settings.stddev, stdDevValues[n])
    /\ \A n \in 1..Len(result) :
         AllDefined(result[n]) =>
           /\ JsSub(result[n].upper, result[n].basis) = JsSub(result[n].basis, result[n].lower)
           /\ n - settings.offset \in 1..Len(stdDevValues)
           /\ JsSub(result[n].upper, result[n].basis)
                = JsMul(settings.stddev, stdDevValues[n - settings.offset])

C8_Witness ==
  /\ Returned
  /\ settings.length = 2
  /\ settings.offset = 0 - 1
  /\ settings.stddev = FromInt(2)
  /\ Len(data) = 3
  /\ AllDefined(result[1])
  /\ result[1].upper # result[1].basis
  /\ JsSub(result[1].upper, result[1].basis) = JsMul(FromInt(2), stdDevValues[2])

(* C9: at every output index basis, upper and lower are all defined or    *)
(* all undefined; upper and lower are never defined where the basis or    *)
(* the dispersion is undefined.                                           *)
C9_DefinedAsUnit ==
  Returned =>
    /\ \A n \in 1..Len(result) : AllDefined(result[n]) \/ AllUndefined(result[n])
    /\ \A n \in 1..Len(basisValues) :
         (Undefined(basisValues[n]) \/ Undefined(stdDevValues[n])) =>
           (Undefined(upperValues[n]) /\ Undefined(lowerValues[n]))

C9_Witness ==
  /\ Returned
  /\ settings.length = 2
  /\ settings.offset = 2
  /\ Len(result) = 4
  /\ AllUndefined(result[1])
  /\ AllUndefined(result[3])
  /\ AllDefined(result[4])

(* C10: source projection: one value per bar, in bar order: the open,     *)
(* high, low or close of the bar, (high+low)/2 for hl2, (high+low+close)/3 *)
(* for hlc3 and (open+high+low+close)/4 for ohlc4.                        *)
C10_SourceProjection ==
  (Returned /\ settings.source \in Sources) =>
    /\ Len(sourceValues) = Len(data)
    /\ \A n \in 1..Len(data) :
         LET b == data[n]
             v == sourceValues[n]
             src == settings.source
         IN  /\ IsFinite(v)
             /\ v.k = RZero
             /\ src = "open" => v = b.open
             /\ src = "high" => v = b.high
             /\ src = "low" => v = b.low
             /\ src = "close" => v = b.close
             /\ src = "hl2" => RMul(v.a, <<2, 1>>) = RAdd(b.high.a, b.low.a)
             /\ src = "hlc3" =>
                  RMul(v.a, <<3, 1>>) = RAdd(RAdd(b.high.a, b.low.a), b.close.a)
             /\ src = "ohlc4" =>
                  RMul(v.a, <<4, 1>>)
                    = RAdd(RAdd(RAdd(b.open.a, b.high.a), b.low.a), b.close.a)

C10_Witness ==
  /\ Returned
  /\ settings.source = "hlc3"
  /\ Len(data) = 2
  /\ data[1] = Bar("t1", 2, 6, 1, 4)
  /\ data[2] = Bar("t2", 3, 5, 2, 2)
  /\ sourceValues = <<FromRat(<<11, 3>>), FromInt(3)>>

(* C11: an unknown source selector is no failure: the call returns, and   *)
(* the series is the one returned for source = close on the same bars and *)
(* remaining settings.                                                    *)
C11_UnknownSourceIsClose ==
  (pc # "call" /\ Len(data) > 0 /\ settings.source \notin Sources) =>
    /\ pc = "done"
    /\ sourceValues = [n \in 1..Len(data) |-> data[n].close]
    /\ result = bollingerBands(data, [settings EXCEPT !.source = "close"])

C11_Witness ==
  /\ Returned
  /\ settings.source = "vwap"
  /\ settings.length = 2
  /\ settings.offset = 0
  /\ Len(data) = 3
  /\ data[1] # data[2]
  /\ AllDefined(result[2])
  /\ result # bollingerBands(data, [settings EXCEPT !.source = "open"])

(* C12: when the length is larger than the number of bars the call        *)
(* returns and every output point has undefined basis, upper and lower,   *)
(* for every offset.                                                      *)
C12_LengthBeyondData ==
  (pc # "call" /\ Len(data) > 0 /\ settings.length > Len(data)) =>
    /\ pc = "done"
    /\ Len(result) = Len(data)
    /\ \A n \in 1..Len(result) : AllUndefined(result[n])

C12_Witness ==
  /\ Returned
  /\ settings.length = 3
  /\ settings.offset = 1
  /\ Len(data) = 2
  /\ result[1].basis = Null
  /\ isNaN(result[2].basis)

(* C13: on an empty bar sequence the call returns the empty sequence,     *)
(* without error, whatever the settings are.                              *)
C13_EmptyBars ==
  (pc # "call" /\ Len(data) = 0) => (pc = "done" /\ result = <<>>)

C13_Witness ==
  /\ pc = "done"
  /\ Len(data) = 0
  /\ settings.length < 0
  /\ settings.offset = 2
  /\ settings.source = "vwap"
  /\ result = <<>>

(* C14: the timestamp of output point i is the timestamp of bar i, for    *)
(* every offset: the offset moves the band values only.                   *)
C14_TimestampsVerbatim ==
  Returned =>
    [n \in 1..Len(result) |-> result[n].timestamp]
      = [n \in 1..Len(data) |-> data[n].timestamp]

C14_Witness ==
  /\ Returned
  /\ settings.offset = 0 - 1
  /\ settings.length = 1
  /\ Len(data) = 3
  /\ data[2].timestamp # data[3].timestamp
  /\ result[2].basis = data[3].close
  /\ result[2].timestamp = data[2].timestamp
  /\ result[3].basis = Null
  /\ result[3].timestamp = data[3].timestamp

(* C17: zero-volatility collapse: where the source value is one constant  *)
(* c over the whole window ending at i, the basis, upper and lower        *)
(* computed for i are all c, for every multiplier (and with offset 0 this *)
(* is output point i).                                                    *)
C17_ZeroVolatility ==
  (Returned /\ settings.length >= 1) =>
    \A n \in settings.length..Len(sourceValues) :
      (\A j \in (n - settings.length + 1)..n : sourceValues[j] = sourceValues[n]) =>
        /\ basisValues[n] = sourceValues[n]
        /\ upperValues[n] = sourceValues[n]
        /\ lowerValues[n] = sourceValues[n]
        /\ settings.offset = 0 =>
             /\ result[n].basis = sourceValues[n]
             /\ result[n].upper = sourceValues[n]
             /\ result[n].lower = sourceValues[n]

C17_Witness ==
  /\ Returned
  /\ settings.length = 3
  /\ settings.offset = 0
  /\ settings.source = "close"
  /\ settings.stddev = FromInt(2)
  /\ Len(data) = 4
  /\ data[1] # data[2]
  /\ data[2] = data[3]
  /\ data[3] = data[4]
  /\ result[4].basis = data[4].close
  /\ result[4].upper = data[4].close
  /\ result[4].lower = data[4].close
  /\ result[3].upper # result[3].basis

(* C18: the engine is total: for every bar sequence, every integer length *)
(* (negative, zero, beyond the data) and every integer offset the call    *)
(* ends, and it ends by returning a series with one point per bar.        *)
C18_Total ==
  <>(pc = "done" /\ Len(result) = Len(data))

C18_Witness ==
  /\ pc = "done"
  /\ settings.length < 0
  /\ settings.offset = 0 - 2
  /\ Len(data) = 4
  /\ Len(result) = 4

(* the fields of the settings that the computation reads *)
Inputs(s) == <<s.length, s.source, s.stddev, s.offset>>

(* C15: the call changes neither the bars nor the settings it receives,   *)
(* and it retains no state: a call with the arguments of the first call   *)
(* returns the series the first call returned, whatever calls came in     *)
(* between.                                                               *)
C15_NoMutationNoState ==
  [][ /\ pc = "call" => (data' = data /\ settings' = settings)
      /\ (pc' = "done" /\ first' # <<>> /\ first'[1].data = data'
            /\ first'[1].settings = settings')
           => result' = first'[1].result ]_vars

C15_Witness ==
  /\ pc = "done"
  /\ first # <<>>
  /\ first[1].data = data
  /\ first[1].settings = settings
  /\ Len(data) = 2
  /\ settings.length = 2
  /\ AllDefined(result[2])
  /\ result = first[1].result

(* C16: style attributes are inert: two settings that agree on length,    *)
(* source, stddev and offset and differ in visibility, colour, width,     *)
(* line style or fill opacity give the same series on the same bars.      *)
C16_StyleInert ==
  (pc = "done" /\ first # <<>> /\ first[1].data = data
     /\ Inputs(first[1].settings) = Inputs(settings))
    => result = first[1].result

C16_Witness ==
  /\ pc = "done"
  /\ first # <<>>
  /\ first[1].data = data
  /\ Inputs(first[1].settings) = Inputs(settings)
  /\ first[1].settings.upperVisible
  /\ ~settings.upperVisible
  /\ first[1].settings.basicColor # settings.basicColor
  /\ Len(data) = 2
  /\ settings.length = 2
  /\ AllDefined(result[2])
  /\ result[2].upper # result[2].basis
  /\ result = first[1].result

(* C20: the series the chart widget draws is the series the engine        *)
(* computes: for every data and settings the registered indicator's calc  *)
(* result at index i (up, mid, dn) equals (upper, basis, lower) of         *)
(* computeBollingerBands(data, settings) at index i, with null where the   *)
(* engine's value is undefined, for every source and every offset.         *)
C20_ChartDrawsEngineSeries ==
  Returned =>
    LET drawn == drawnSeries(data, settings)
    IN  /\ Len(drawn) = Len(result)
        /\ \A n \in 1..Len(result) :
             /\ drawn[n].up = OrNull(result[n].upper)
             /\ drawn[n].mid = OrNull(result[n].basis)
             /\ drawn[n].dn = OrNull(result[n].lower)

(* C19: after any sequence of accepted uploads and settings changes, once *)
(* the effects of the page have run, bollingerData equals                  *)
(* computeBollingerBands(chartData, bollingerSettings) for the current     *)
(* chartData and bollingerSettings, and has one point per bar of chartData.*)
C19_BandsFollowDataAndSettings ==
  effects = <<>> =>
    /\ bollingerData = bollingerBands(chartData, bollingerSettings)
    /\ Len(bollingerData) = Len(chartData)

(* C26: warm-up and offset combined: for length L >= 1, N bars and any    *)
(* integer offset k, output point i has defined basis, upper and lower if *)
(* and only if L-1 <= i-k < N; a positive k lengthens the undefined       *)
(* prefix to L-1+k points, a negative k leaves the last |k| undefined.    *)
C26_WarmUpAndOffset ==
  (Returned /\ settings.length >= 1) =>
    \A n \in 1..Len(result) :
      LET i == n - 1
          k == settings.offset
          inside == settings.length - 1 <= i - k /\ i - k < Len(data)
      IN  /\ inside => AllDefined(result[n])
          /\ ~inside => AllUndefined(result[n])

C26_Witness ==
  /\ Returned
  /\ settings.length = 2
  /\ settings.offset = 0 - 1
  /\ Len(data) = 4
  /\ AllUndefined(result[4])
  /\ AllDefined(result[3])
  /\ AllDefined(result[1])
  /\ result[1].basis = basisValues[2]

(* C27: band ordering: for every multiplier >= 0 and every index where    *)
(* the bands are defined, lower <= basis <= upper, for every length >= 1, *)
(* source and offset.                                                     *)
C27_BandOrdering ==
  (Returned /\ settings.length >= 1 /\ NonNegative(settings.stddev)) =>
    \A n \in 1..Len(result) :
      AllDefined(result[n]) =>
        /\ Leq(result[n].lower, result[n].basis)
        /\ Leq(result[n].basis, result[n].upper)

C27_Witness ==
  /\ Returned
  /\ settings.length = 2
  /\ settings.stddev = FromInt(2)
  /\ settings.offset = 1
  /\ Len(data) = 3
  /\ AllDefined(result[3])
  /\ result[3].lower # result[3].basis
  /\ Leq(result[3].lower, result[3].basis)
  /\ ~Leq(result[3].basis, result[3].lower)
  /\ Leq(result[3].basis, result[3].upper)

(* C24: every bar that the CSV upload hands to the engine satisfies the   *)
(* producer contract: open, high, low and close are finite real numbers,  *)
(* each > 0; a row violating this never reaches uploadedData.             *)
C24_UploadedBarsValid ==
  uploadedData # <<>> =>
    \A n \in 1..Len(uploadedData[1]) :
      LET bar == uploadedData[1][n]
      IN  /\ IsFinite(bar.open) /\ Positive(bar.open)
          /\ IsFinite(bar.high) /\ Positive(bar.high)
          /\ IsFinite(bar.low) /\ Positive(bar.low)
          /\ IsFinite(bar.close) /\ Positive(bar.close)

(* C25: handleFileUpload parses at most 1000 data rows in addition to the *)
(* header row: uploadedData holds at most 1000 bars.                      *)
C25_AtMostThousandRows ==
  uploadedData # <<>> => Len(uploadedData[1]) <= 1000

(* C22: the consumer of the band series treats an undefined basis, upper  *)
(* or lower as "no value at this index", never as a failure: the Current  *)
(* Values panel, which reads the last point of bollingerData, renders for *)
(* every series computeBollingerBands returns for the page's chartData    *)
(* and bollingerSettings, also when the last point is undefined.          *)
C22_PanelRendersUndefined ==
  (effects = <<>> /\ Len(chartData) > 0) =>
    ~renderThrows(bollingerBands(chartData, bollingerSettings))

(* C23: every settings value the settings editor passes to                *)
(* onSettingsChange satisfies length >= 1 and stddev > 0, whatever slider *)
(* moves, number-input edits and resets the user performs.                *)
C23_EditorKeepsContract ==
  localSettings # <<>> =>
    /\ localSettings[1].length >= 1
    /\ Positive(localSettings[1].stddev)
    /\ bollingerSettings.length >= 1
    /\ Positive(bollingerSettings.stddev)

(* C28: every upload that handleFileUpload accepts is loaded without      *)
(* error: when the upload effect has run for it, the page is still        *)
(* mounted, chartData equals the uploaded bars, currentPrice equals the   *)
(* last bar's close and showBollingerIndicator is true, for every         *)
(* accepted number of rows and also after the indicator was removed.      *)
C28_AcceptedUploadLoads ==
  [][(uploadedData # <<>> /\ effects # <<>> /\ Head(effects) = "upload"
        /\ effects' # effects)
       => /\ pageStatus' = "mounted"
          /\ chartData' = uploadedData[1]
          /\ currentPrice' = uploadedData[1][Len(uploadedData[1])].close
          /\ showBollingerIndicator']_vars

(* the effect of one call of updateSetting on the dialog and the page *)
EditReachesPage(key, value) ==
  updateSetting(key, value) =>
    /\ bollingerSettings' = localSettings'[1]
    /\ bollingerSettings'[key] = value
    /\ \A field \in DOMAIN bollingerSettings \ {key} :
         /\ bollingerSettings'[field] = bollingerSettings[field]
         /\ localSettings'[1][field] = localSettings[1][field]

(* C30: every edit in the settings dialog changes exactly one field and   *)
(* reaches the page at once: after updateSetting(key, value) the page's   *)
(* bollingerSettings equals the dialog's localSettings, its field key is  *)
(* value and every other field is unchanged; resetToDefaults sets both to *)
(* the defaults, which equal the page's initial settings.                 *)
C30_EditsReachPage ==
  [][/\ \A value \in LengthValues : EditReachesPage("length", value)
     /\ \A value \in StddevValues : EditReachesPage("stddev", value)
     /\ \A value \in OffsetValues : EditReachesPage("offset", value)
     /\ \A value \in SourceItems : EditReachesPage("source", value)
     /\ resetToDefaults =>
          /\ bollingerSettings' = defaults
          /\ localSettings' = <<defaults>>
          /\ defaults = InitialSettings]_vars

C30_Witness ==
  /\ localSettings # <<>>
  /\ pageStatus = "mounted"
  /\ Len(chartData) = 2
  /\ bollingerSettings = localSettings[1]
  /\ bollingerSettings = [InitialSettings EXCEPT !.source = "hl2"]

(* the widget's value d shows the engine's value e: the same number, or   *)
(* no number where the engine's value is undefined                        *)
Reflects(d, e) == IF Undefined(e) THEN Undefined(d) ELSE d = e

(* C21: the live chart stays in sync when parameters change: while Chart  *)
(* is mounted, after every change of the settings prop and once effects   *)
(* have run, the chart's indicator has calcParams [settings.length,       *)
(* settings.stddev] of the current settings, and every settings field     *)
(* that affects the computed series (length, stddev, source, offset) is   *)
(* reflected in what the indicator computes: its series on the applied    *)
(* data is the engine's series for the current settings.                  *)
C21_ChartFollowsSettings ==
  (pageStatus = "mounted" /\ effects = <<>> /\ chartInstance = "chart") =>
    /\ indicatorParams = calcParams(bollingerSettings)
    /\ Len(chartData) > 0 =>
         LET drawn == calc(chartKlines, indicatorParams)
             bands == bollingerBands(chartData, bollingerSettings)
         IN  /\ Len(drawn) = Len(bands)
             /\ \A n \in 1..Len(bands) :
                  /\ Reflects(drawn[n].up, bands[n].upper)
                  /\ Reflects(drawn[n].mid, bands[n].basis)
                  /\ Reflects(drawn[n].dn, bands[n].lower)

(* C29: Chart never uses a chart instance outside its lifetime: in every  *)
(* order of mount, data change, settings change and unmount, the chart    *)
(* instance held is initialised and not disposed, data and calcParams     *)
(* reach the chart only through a live instance, a mounted chart with     *)
(* non-empty data has that data applied once effects have run, and after  *)
(* unmount chartInstance is null.                                         *)
C29_ChartLifetime ==
  /\ [](/\ chartInstance # "null" => chartLife = "live"
        /\ (pageStatus = "mounted" /\ effects = <<>> /\ showBollingerIndicator
              /\ Len(chartData) > 0)
             => /\ chartInstance = "chart"
                /\ chartKlines = klineData(chartData)
        /\ (effects = <<>>
              /\ (~showBollingerIndicator \/ pageStatus = "crashed"))
             => chartInstance = "null")
  /\ [][((chartKlines' # chartKlines /\ chartKlines' # <<>>)
           \/ (indicatorParams' # indicatorParams /\ indicatorParams' # <<>>))
          => (chartInstance' = "chart" /\ chartLife' = "live")]_vars

C29_Witness ==
  /\ pageStatus = "mounted"
  /\ effects = <<>>
  /\ ~showBollingerIndicator
  /\ Len(chartData) = 2
  /\ chartLife = "disposed"
  /\ chartInstance = "null"

====
